---- MODULE Spec2Model ----
(***************************************************************************)
(* Bare-metal smoke tests of the vsdfpga RISC-V SoC:                       *)
(*   TASK2/source/gpio_test.c          GPIO readback test     (Variant A)  *)
(*   TASK3/sourcefiles/gpio_ctrl_test.c GPIO dir/write/read   (Variant B)  *)
(*   TASK4/source/timer_test2.c        periodic timer test                 *)
(* One CPU executes one of the programs, statement by statement, against   *)
(* memory-mapped peripherals.  Characters are their ASCII codes, words are *)
(* 32-bit unsigned values, registers are named by their bus addresses.     *)
(***************************************************************************)
EXTENDS Integers, Sequences, FiniteSets, TLC

VARIABLES
    prog,       \* which program image is loaded
    pc,         \* position of the CPU in the program
    ret,        \* return position of the print routine being executed
    val,        \* the local holding the value last read from a register
    v,          \* print_hex's argument
    hex_i,      \* print_hex's loop index i
    str,        \* the bytes print_string's argument points into
    s,          \* print_string's pointer, as an offset into str
    delay_i,    \* the volatile loop counter of the busy-wait
    uart,       \* the characters the UART data register has received
    trace,      \* the register accesses seen on the bus, in order
    last,       \* the most recent bus access
    trapped,    \* number of ecall instructions executed
    ideal,      \* the GPIO register reads back the last value written
    gpio_data,  \* GPIO data register   (GPIO_BASE + 0x00)
    gpio_dir,   \* GPIO direction register (GPIO_BASE + 0x04)
    ctrl,       \* TIMER_CTRL
    load,       \* TIMER_LOAD
    count,      \* the timer's down counter
    stat,       \* TIMER_STAT
    steps       \* register accesses of the CPU since the last timeout, up to LoopAccesses

cpuVars   == <<pc, ret, val, v, hex_i, str, s, delay_i>>
busVars   == <<uart, trace, last, gpio_data, gpio_dir, ctrl, load, count, stat>>
vars      == <<prog, pc, ret, val, v, hex_i, str, s, delay_i, uart, trace, last,
               trapped, ideal, gpio_data, gpio_dir, ctrl, load, count, stat, steps>>

----------------------------------------------------------------------------
(* Bounds of the model *)

\* longest byte string handed to print_string by the string harness
MaxStrLen == 3
\* number of bus accesses of the (non-terminating) timer test that are recorded
MaxTimerTrace == 10
\* simulation time advances in steps of this many timer clock cycles
TickCycles == 6000000

----------------------------------------------------------------------------
(* Program constants *)

IO_BASE    == 4194304
GPIO_BASE  == 4194336
TIMER_BASE == 4194368
UART_ADDR  == IO_BASE + 4
GPIO_ADDR  == IO_BASE + 32
GPIO_DATA  == GPIO_BASE + 0
GPIO_DIR   == GPIO_BASE + 4
GPIO_READ  == GPIO_BASE + 8
TIMER_CTRL == TIMER_BASE + 0
TIMER_LOAD == TIMER_BASE + 4
TIMER_STAT == TIMER_BASE + 12

(* A 32-bit word is the pair <<high half, low half>> of 16-bit values *)

Half == 2^16

\* the word of a number below 2^31
W(n) == <<n \div Half, n % Half>>

\* the number of a word below 2^31
Num(w) == w[1] * Half + w[2]

\* w >> n for 0 <= n < 32   (C's >> on uint32_t)
Shr(w, n) ==
    IF n >= 16
    THEN <<0, w[1] \div 2^(n - 16)>>
    ELSE <<w[1] \div 2^n, (w[1] % 2^n) * 2^(16 - n) + w[2] \div 2^n>>

\* bitwise a & ~b on one 16-bit half
RECURSIVE HalfAndNot(_, _, _)
HalfAndNot(a, b, k) ==
    IF k = 0 THEN 0
    ELSE 2 * HalfAndNot(a \div 2, b \div 2, k - 1)
         + (IF b % 2 = 1 THEN 0 ELSE a % 2)

\* bitwise a & ~b on a word
AndNot(a, b) == <<HalfAndNot(a[1], b[1], 16), HalfAndNot(a[2], b[2], 16)>>

\* bit 0 of a word   (w & 0x1)
Bit0(w) == w[2] % 2

\* 32-bit words used as inputs: register read values and print_hex arguments
\* 0, 0xA, 0x1F, 0xA5, 0x12345678, 0x80000000, 0x89ABCDEF, 0xDEADBEEF, 0xFFFFFFFF
Words == { <<0, 0>>, <<0, 10>>, <<0, 31>>, <<0, 165>>, <<4660, 22136>>,
           <<32768, 0>>, <<35243, 52719>>, <<57005, 48879>>, <<65535, 65535>> }

\* character codes the string harness builds its inputs from: NUL, LF, 'A', 0xC8
Chars == {0, 10, 65, 200}

\* status bits other than the timeout flag that the status register may hold
\* at reset: none, bit 1, bits 31 and 2
StatResetValues == { <<0, 0>>, <<0, 2>>, <<32768, 4>> }

----------------------------------------------------------------------------
(* The peripherals behind the bus *)

\* one recorded access; t alternates so that two equal accesses in a row differ
Access(op, addr, w) == [op |-> op, addr |-> addr, val |-> w, t |-> 1 - last.t]

\* the bus trace with one more access; the endless timer test is recorded
\* for its first MaxTimerTrace accesses only
Log(e) ==
    IF prog = "timer_test2" /\ Len(trace) >= MaxTimerTrace
    THEN trace
    ELSE Append(trace, e)

\* the timer is enabled (TIMER_CTRL bit 0)
Enabled(c) == c[2] % 2 = 1

\* the timer reloads after a timeout (TIMER_CTRL bit 1)
Periodic(c) == (c[2] \div 2) % 2 = 1

\* a store of word w to the register at addr reaches the peripheral
BusWrite(addr, w) ==
    /\ trace' = Log(Access("W", addr, w))
    /\ last' = Access("W", addr, w)
    /\ uart' = IF addr = UART_ADDR THEN Append(uart, Num(w)) ELSE uart
    /\ gpio_data' = IF addr = GPIO_DATA THEN w ELSE gpio_data
    /\ gpio_dir' = IF addr = GPIO_DIR THEN w ELSE gpio_dir
    /\ ctrl' = IF addr = TIMER_CTRL THEN w ELSE ctrl
    /\ load' = IF addr = TIMER_LOAD THEN w ELSE load
    /\ count' = IF addr = TIMER_CTRL /\ Enabled(w) /\ ~Enabled(ctrl)
                THEN Num(load) ELSE count
    /\ stat' = IF addr = TIMER_STAT THEN AndNot(stat, w) ELSE stat

\* the words a load from the register at addr may return
ReadValues(addr) ==
    IF addr = GPIO_DATA THEN (IF ideal THEN {gpio_data} ELSE Words)
    ELSE IF addr = GPIO_DIR THEN {gpio_dir}
    ELSE IF addr = GPIO_READ THEN Words
    ELSE IF addr = TIMER_CTRL THEN {ctrl}
    ELSE IF addr = TIMER_LOAD THEN {load}
    ELSE IF addr = TIMER_STAT THEN {stat}
    ELSE {W(0)}

\* a load from the register at addr reaches the peripheral and returns w
BusRead(addr, w) ==
    /\ w \in ReadValues(addr)
    /\ trace' = Log(Access("R", addr, w))
    /\ last' = Access("R", addr, w)
    /\ UNCHANGED <<uart, gpio_data, gpio_dir, ctrl, load, count, stat>>

\* simulation time advances by TickCycles clock cycles: an enabled timer
\* counts down, and on reaching zero sets the timeout flag and, in periodic
\* mode, reloads
Tick ==
    /\ Enabled(ctrl)
    /\ IF count > TickCycles
       THEN /\ count' = count - TickCycles
            /\ UNCHANGED <<stat, ctrl>>
       ELSE /\ stat' = <<stat[1], stat[2] - Bit0(stat) + 1>>
            /\ count' = IF Periodic(ctrl) THEN Num(load) ELSE 0
            /\ ctrl' = IF Periodic(ctrl) THEN ctrl ELSE <<ctrl[1], ctrl[2] - 1>>
    /\ steps' = IF count > TickCycles THEN steps ELSE 0
    /\ UNCHANGED <<prog, cpuVars, uart, trace, last, trapped, ideal,
                   gpio_data, gpio_dir, load>>

----------------------------------------------------------------------------
(* How the compiler treats a register access *)

\* gpio_test.c with main's gpio pointer declared without volatile
gpio_test_plain_gpio == {UART_ADDR}

\* gpio_test.c: uart_putc's pointer and main's gpio pointer are volatile
gpio_test_volatile == {UART_ADDR, GPIO_ADDR}

\* gpio_ctrl_test.c: the three register macros are volatile lvalues
gpio_ctrl_test_volatile == {GPIO_DATA, GPIO_DIR, GPIO_READ}

\* the UART register behind io.h's print routines
io_volatile == {UART_ADDR}

\* timer_test2.c: the three register macros are volatile lvalues
timer_test2_volatile == {TIMER_CTRL, TIMER_LOAD, TIMER_STAT}

\* the registers the running program accesses through volatile lvalues
VolatileRegs ==
    IF prog = "gpio_ctrl_test" THEN gpio_ctrl_test_volatile \cup io_volatile
    ELSE IF prog = "timer_test2" THEN timer_test2_volatile
    ELSE gpio_test_volatile

\* the access to addr in the running program is a volatile access
VolatileAccess(addr) == addr \in VolatileRegs

\* whether an access written in the program is performed on the bus: a
\* volatile access always is, any other may be dropped by the compiler
Performed(addr) == IF VolatileAccess(addr) THEN {TRUE} ELSE {TRUE, FALSE}

\* the statement  *addr = w
Store(addr, w) ==
    \E hit \in Performed(addr) :
        IF hit THEN BusWrite(addr, w) ELSE UNCHANGED busVars

\* the statement  val = *addr
LoadVal(addr) ==
    \E hit \in Performed(addr) :
        \E w \in ReadValues(addr) :
            /\ val' = w
            /\ IF hit THEN BusRead(addr, w) ELSE UNCHANGED busVars

----------------------------------------------------------------------------
(* Polled UART output: uart_putc, print_hex, print_string of gpio_test.c *)

\* const char hex[] = "0123456789ABCDEF", with its terminator
hex == <<48, 49, 50, 51, 52, 53, 54, 55, 56, 57, 65, 66, 67, 68, 69, 70, 0>>

\* the nibbles taken least significant first: (v >> ((7 - i) * 4)) & 0xF
NibbleLsbFirst(w, i) == Shr(w, (7 - i) * 4)[2] % 16

\* (v >> (i * 4)) & 0xF
Nibble(w, i) == Shr(w, i * 4)[2] % 16

\* uart_putc(c): *uart = (uint32_t)c   (plain char is unsigned on RISC-V)
uart_putc(c) == Store(UART_ADDR, W(c))

\* the character  *++s  would hand to uart_putc
DerefPreIncrement(bytes, p) == bytes[p + 2]

\* the character  *s++  hands to uart_putc
Deref(bytes, p) == bytes[p + 1]

\* one evaluation of print_hex's for loop: emit a digit, or leave at i < 0
HexLoop ==
    /\ pc = "print_hex"
    /\ IF hex_i >= 0
       THEN /\ uart_putc(hex[Nibble(v, hex_i) + 1])
            /\ hex_i' = hex_i - 1
            /\ pc' = pc
       ELSE /\ pc' = ret
            /\ UNCHANGED <<hex_i, busVars>>
    /\ UNCHANGED <<prog, ret, val, v, str, s, delay_i, trapped, ideal, steps>>

\* one evaluation of print_string's while loop: emit *s++, or leave at the
\* terminator
StringLoop ==
    /\ pc = "print_string"
    /\ IF str[s + 1] # 0
       THEN /\ uart_putc(Deref(str, s))
            /\ s' = s + 1
            /\ pc' = pc
       ELSE /\ pc' = ret
            /\ UNCHANGED <<s, busVars>>
    /\ UNCHANGED <<prog, ret, val, v, hex_i, str, delay_i, trapped, ideal, steps>>

\* entry to print_hex(w), returning to position r
CallHex(w, r) ==
    /\ v' = w
    /\ hex_i' = 7
    /\ ret' = r
    /\ pc' = "print_hex"
    /\ UNCHANGED <<prog, val, str, s, delay_i, busVars, trapped, ideal, steps>>

\* entry to print_string(bytes), returning to position r
CallString(bytes, r) ==
    /\ str' = bytes
    /\ s' = 0
    /\ ret' = r
    /\ pc' = "print_string"
    /\ UNCHANGED <<prog, val, v, hex_i, delay_i, busVars, trapped, ideal, steps>>

\* print_hex of gpio_test.c
print_hex == prog \in {"gpio_test", "print_hex"} /\ HexLoop

\* print_string of gpio_test.c
print_string == prog \in {"gpio_test", "print_string"} /\ StringLoop

\* print_hex applied to the input word
call_print_hex == prog = "print_hex" /\ pc = "call" /\ CallHex(v, "done")

\* print_string applied to the input bytes
call_print_string == prog = "print_string" /\ pc = "call" /\ CallString(str, "done")

----------------------------------------------------------------------------
(* gpio_test.c: GPIO readback test *)

\* "GPIO readback = "
LabelReadback == <<71, 80, 73, 79, 32, 114, 101, 97, 100, 98, 97, 99, 107, 32, 61, 32, 0>>

\* "\n"
Newline == <<10, 0>>

\* the pattern with its nibbles exchanged: 0x5A
GpioPatternSwapped == W(90)

\* the pattern written to the GPIO register: 0xA5
GpioPattern == W(165)

\* _start: main();
start ==
    /\ prog = "gpio_test" /\ pc = "start11"
    /\ pc' = "main38"
    /\ UNCHANGED <<prog, ret, val, v, hex_i, str, s, delay_i, busVars, trapped, ideal, steps>>

\* *gpio = 0xA5;  followed by the compiler barrier
main_write ==
    /\ prog = "gpio_test" /\ pc = "main38"
    /\ Store(GPIO_ADDR, GpioPattern)
    /\ pc' = "main41"
    /\ UNCHANGED <<prog, ret, val, v, hex_i, str, s, delay_i, trapped, ideal, steps>>

\* uint32_t val = *gpio;
main_read ==
    /\ prog = "gpio_test" /\ pc = "main41"
    /\ LoadVal(GPIO_ADDR)
    /\ pc' = "main43"
    /\ UNCHANGED <<prog, ret, v, hex_i, str, s, delay_i, trapped, ideal, steps>>

\* print_string("GPIO readback = ");
main_label == prog = "gpio_test" /\ pc = "main43" /\ CallString(LabelReadback, "main44")

\* print_hex(val);
main_hex == prog = "gpio_test" /\ pc = "main44" /\ CallHex(val, "main45")

\* main going from print_hex to the ecall without printing the newline
main_newline_skipped ==
    /\ prog = "gpio_test" /\ pc = "main45"
    /\ pc' = "main47"
    /\ UNCHANGED <<prog, ret, val, v, hex_i, str, s, delay_i, busVars, trapped, ideal, steps>>

\* print_string("\n");
main_newline == prog = "gpio_test" /\ pc = "main45" /\ CallString(Newline, "main47")

\* asm volatile ("ecall");
main_ecall ==
    /\ prog = "gpio_test" /\ pc = "main47"
    /\ trapped' = trapped + 1
    /\ pc' = "main49"
    /\ UNCHANGED <<prog, ret, val, v, hex_i, str, s, delay_i, busVars, ideal, steps>>

\* return 0;  back into _start
main_return ==
    /\ prog = "gpio_test" /\ pc = "main49"
    /\ pc' = "start12"
    /\ UNCHANGED <<prog, ret, val, v, hex_i, str, s, delay_i, busVars, trapped, ideal, steps>>

\* _start: while (1);
start_idle ==
    /\ prog = "gpio_test" /\ pc = "start12"
    /\ UNCHANGED vars

----------------------------------------------------------------------------
(* gpio_ctrl_test.c: GPIO direction / write / read test *)

\* "GPIO READ = "
LabelRead == <<71, 80, 73, 79, 32, 82, 69, 65, 68, 32, 61, 32, 0>>

\* a direction mask of 4 bits: 0x0000000F
DirMaskFourBits == W(15)

\* the direction mask: 0x0000001F, the lower 5 GPIOs are outputs
DirMask == W(31)

\* the value written to the data register: 0x0000000A
DataValue == W(10)

\* the iteration count of the busy-wait
DelayCount == 1000

\* GPIO_DIR = 0x0000001F;
ctrl_dir ==
    /\ prog = "gpio_ctrl_test" /\ pc = "ctrl13"
    /\ Store(GPIO_DIR, DirMask)
    /\ pc' = "ctrl16"
    /\ UNCHANGED <<prog, ret, val, v, hex_i, str, s, delay_i, trapped, ideal, steps>>

\* GPIO_DATA = 0x0000000A;  and the initialisation  volatile int i = 0
ctrl_data ==
    /\ prog = "gpio_ctrl_test" /\ pc = "ctrl16"
    /\ Store(GPIO_DATA, DataValue)
    /\ delay_i' = 0
    /\ pc' = "ctrl19"
    /\ UNCHANGED <<prog, ret, val, v, hex_i, str, s, trapped, ideal, steps>>

\* for (...; i < 1000; i++);  one test of the condition
ctrl_delay ==
    /\ prog = "gpio_ctrl_test" /\ pc = "ctrl19"
    /\ IF delay_i < DelayCount
       THEN delay_i' = delay_i + 1 /\ pc' = pc
       ELSE delay_i' = delay_i /\ pc' = "ctrl22"
    /\ UNCHANGED <<prog, ret, val, v, hex_i, str, s, busVars, trapped, ideal, steps>>

\* unsigned int val = GPIO_READ;
ctrl_read ==
    /\ prog = "gpio_ctrl_test" /\ pc = "ctrl22"
    /\ LoadVal(GPIO_READ)
    /\ pc' = "ctrl25"
    /\ UNCHANGED <<prog, ret, v, hex_i, str, s, delay_i, trapped, ideal, steps>>

\* print_string("GPIO READ = ");
ctrl_label == prog = "gpio_ctrl_test" /\ pc = "ctrl25" /\ CallString(LabelRead, "ctrl26")

\* print_hex(val);
ctrl_hex == prog = "gpio_ctrl_test" /\ pc = "ctrl26" /\ CallHex(val, "ctrl27")

\* print_string("\n");
ctrl_newline == prog = "gpio_ctrl_test" /\ pc = "ctrl27" /\ CallString(Newline, "ctrl30")

\* asm volatile ("ecall");
ctrl_ecall ==
    /\ prog = "gpio_ctrl_test" /\ pc = "ctrl30"
    /\ trapped' = trapped + 1
    /\ pc' = "ctrl32"
    /\ UNCHANGED <<prog, ret, val, v, hex_i, str, s, delay_i, busVars, ideal, steps>>

\* return 0;
ctrl_return ==
    /\ prog = "gpio_ctrl_test" /\ pc = "ctrl32"
    /\ pc' = "exit"
    /\ UNCHANGED <<prog, ret, val, v, hex_i, str, s, delay_i, busVars, trapped, ideal, steps>>

\* print_hex as io.h declares it
io_print_hex == prog = "gpio_ctrl_test" /\ HexLoop

\* print_string as io.h declares it
io_print_string == prog = "gpio_ctrl_test" /\ StringLoop

----------------------------------------------------------------------------
(* timer_test2.c: periodic timer test *)

\* a first write that sets the enable bit
CtrlStopEnables == W(1)

\* the value that stops the timer
CtrlStop == W(0)

\* the reload count: 12000000
LoadValue == W(12000000)

\* a start value with the enable bit left out: MODE only
CtrlRunModeOnly == W(2)

\* the value that starts the timer: bit0 = EN, bit1 = MODE (periodic)
CtrlRun == W(3)

\* a test that takes the flag as always set
TimeoutSeenAlways(w) == TRUE

\* TIMER_STAT & 0x1, on the word read
TimeoutSeen(w) == Bit0(w) = 1

\* an acknowledgement that writes 0
StatAckZero(w) == W(0)

\* the word written to TIMER_STAT after reading w from it
StatAck(w) == W(1)

\* register accesses of one pass through the polling loop that sees the flag
LoopAccesses == 2

\* one more register access of the CPU since the last timeout
Stepped == IF steps < LoopAccesses THEN steps + 1 ELSE steps

\* TIMER_CTRL = 0;
timer_stop ==
    /\ prog = "timer_test2" /\ pc = "tmr11"
    /\ Store(TIMER_CTRL, CtrlStop)
    /\ pc' = "tmr14"
    /\ steps' = Stepped
    /\ UNCHANGED <<prog, ret, val, v, hex_i, str, s, delay_i, trapped, ideal>>

\* TIMER_LOAD = 12000000;
timer_load ==
    /\ prog = "timer_test2" /\ pc = "tmr14"
    /\ Store(TIMER_LOAD, LoadValue)
    /\ pc' = "tmr17"
    /\ steps' = Stepped
    /\ UNCHANGED <<prog, ret, val, v, hex_i, str, s, delay_i, trapped, ideal>>

\* TIMER_CTRL = 0x3;
timer_run ==
    /\ prog = "timer_test2" /\ pc = "tmr17"
    /\ Store(TIMER_CTRL, CtrlRun)
    /\ pc' = "tmr20"
    /\ steps' = Stepped
    /\ UNCHANGED <<prog, ret, val, v, hex_i, str, s, delay_i, trapped, ideal>>

\* if (TIMER_STAT & 0x1)
timer_poll ==
    /\ prog = "timer_test2" /\ pc = "tmr20"
    /\ LoadVal(TIMER_STAT)
    /\ pc' = IF TimeoutSeen(val') THEN "tmr21" ELSE "tmr20"
    /\ steps' = Stepped
    /\ UNCHANGED <<prog, ret, v, hex_i, str, s, delay_i, trapped, ideal>>

\* TIMER_STAT = 0x1;
timer_ack ==
    /\ prog = "timer_test2" /\ pc = "tmr21"
    /\ Store(TIMER_STAT, StatAck(val))
    /\ pc' = "tmr20"
    /\ steps' = Stepped
    /\ UNCHANGED <<prog, ret, val, v, hex_i, str, s, delay_i, trapped, ideal>>

----------------------------------------------------------------------------
(* The system *)

\* the byte strings handed to print_string: up to MaxStrLen bytes, which may
\* hold terminators of their own, and a final terminator
StrInputs ==
    { Append(q, 0) : q \in UNION { [1..n -> Chars] : n \in 0..MaxStrLen } }

\* the state at reset, with program p loaded at position p0
Reset(p, p0) ==
    /\ prog = p
    /\ pc = p0
    /\ ret = "none"
    /\ val = W(0)
    /\ hex_i = 0
    /\ s = 0
    /\ delay_i = 0
    /\ uart = <<>>
    /\ trace = <<>>
    /\ last = [op |-> "none", addr |-> 0, val |-> W(0), t |-> 0]
    /\ trapped = 0
    /\ gpio_data = W(0)
    /\ gpio_dir = W(0)
    /\ ctrl = W(0)
    /\ load = W(0)
    /\ count = 0
    /\ steps = 0

Init ==
    \/ Reset("gpio_test", "start11") /\ v = W(0) /\ str = <<0>>
         /\ ideal \in BOOLEAN /\ stat = W(0)
    \/ Reset("gpio_ctrl_test", "ctrl13") /\ v = W(0) /\ str = <<0>>
         /\ ideal = FALSE /\ stat = W(0)
    \/ Reset("timer_test2", "tmr11") /\ v = W(0) /\ str = <<0>>
         /\ ideal = FALSE /\ stat \in StatResetValues
    \/ Reset("print_hex", "call") /\ v \in Words /\ str = <<0>>
         /\ ideal = FALSE /\ stat = W(0)
    \/ Reset("print_string", "call") /\ v = W(0) /\ str \in StrInputs
         /\ ideal = FALSE /\ stat = W(0)

\* one step of the CPU
CPU ==
    \/ start \/ main_write \/ main_read \/ main_label \/ main_hex
    \/ main_newline \/ main_ecall \/ main_return \/ start_idle
    \/ print_hex \/ print_string \/ call_print_hex \/ call_print_string
    \/ ctrl_dir \/ ctrl_data \/ ctrl_delay \/ ctrl_read \/ ctrl_label
    \/ ctrl_hex \/ ctrl_newline \/ ctrl_ecall \/ ctrl_return
    \/ io_print_hex \/ io_print_string
    \/ timer_stop \/ timer_load \/ timer_run \/ timer_poll \/ timer_ack

Next == CPU \/ Tick

\* any interleaving of the CPU and simulation time
Spec == Init /\ [][Next]_vars

\* the CPU keeps executing and simulation time keeps advancing
FairSpec == Spec /\ WF_vars(CPU) /\ WF_vars(Tick)

\* a timer period is longer than one pass through the polling loop: between
\* two timeouts the CPU has the time to read the flag and to acknowledge it
TimedTick == (count > TickCycles \/ steps >= LoopAccesses) /\ Tick

TimedNext == CPU \/ TimedTick

TimedFairSpec == Init /\ [][TimedNext]_vars /\ WF_vars(CPU) /\ WF_vars(TimedTick)

----------------------------------------------------------------------------
(* Properties *)

\* the ASCII code of hex digit d, upper case
HexDigit(d) == IF d < 10 THEN 48 + d ELSE 55 + d

\* hex digit k of word w, k = 0 being the most significant
DigitOf(w, k) ==
    IF k < 4 THEN (w[1] \div 16^(3 - k)) % 16 ELSE (w[2] \div 16^(7 - k)) % 16

\* the 8 characters of word w in upper-case hexadecimal
HexText(w) == [k \in 1..8 |-> HexDigit(DigitOf(w, k - 1))]

\* sequence a is an initial part of sequence b
IsPrefix(a, b) == Len(a) <= Len(b) /\ \A k \in 1..Len(a) : a[k] = b[k]

\* the position of the first terminator of a byte string
FirstNul(bytes) == CHOOSE k \in 1..Len(bytes) : bytes[k] = 0 /\ \A j \in 1..(k - 1) : bytes[j] # 0

\* the characters of a byte string before its first terminator
Text(bytes) == SubSeq(bytes, 1, FirstNul(bytes) - 1)

\* entry k of the bus trace is access op to addr with word w
IsAccess(e, op, addr, w) == e.op = op /\ e.addr = addr /\ e.val = w

\* the bus trace is exactly one UART write per character of chars
UartWritesOnly(chars) ==
    /\ Len(trace) = Len(chars)
    /\ \A k \in 1..Len(trace) : IsAccess(trace[k], "W", UART_ADDR, <<0, chars[k]>>)

\* C1: print_hex(v) writes exactly 8 characters to the UART, each of 0-9A-F,
\* the k-th being the hex digit of nibble 7-k of v: most significant first,
\* no prefix; 0 gives "00000000" and 0xFFFFFFFF gives "FFFFFFFF".
C1_PrintHex ==
    prog = "print_hex" =>
        /\ IsPrefix(uart, HexText(v))
        /\ \A k \in 1..Len(uart) : uart[k] \in (48..57) \cup (65..70)
        /\ UartWritesOnly(uart)
        /\ pc = "done" =>
            /\ Len(uart) = 8
            /\ v = <<0, 0>> => uart = <<48, 48, 48, 48, 48, 48, 48, 48>>
            /\ v = <<65535, 65535>> => uart = <<70, 70, 70, 70, 70, 70, 70, 70>>
            /\ v = <<4660, 22136>> => uart = <<49, 50, 51, 52, 53, 54, 55, 56>>

\* print_hex has returned for the input 0x89ABCDEF
C1_Witness ==
    /\ prog = "print_hex" /\ pc = "done" /\ v = <<35243, 52719>>
    /\ uart = <<56, 57, 65, 66, 67, 68, 69, 70>>

\* C2: print_string(s) writes exactly the characters of s before the first
\* terminator, in order, one UART write each; never the terminator nor what
\* follows it; nothing at all for the empty string.
C2_PrintString ==
    prog = "print_string" =>
        /\ IsPrefix(uart, Text(str))
        /\ UartWritesOnly(uart)
        /\ pc = "done" => uart = Text(str)
        /\ pc = "done" /\ str[1] = 0 => uart = <<>> /\ trace = <<>>

\* print_string has returned for the bytes 'A', NUL, LF, NUL
C2_Witness ==
    /\ prog = "print_string" /\ pc = "done"
    /\ str = <<65, 0, 10, 0>> /\ uart = <<65>>

\* "GPIO readback = 000000A5\n"
ReadbackLine ==
    <<71, 80, 73, 79, 32, 114, 101, 97, 100, 98, 97, 99, 107, 32, 61, 32,
      48, 48, 48, 48, 48, 48, 65, 53, 10>>

\* the readback test has finished its output
ReadbackPrinted == pc \in {"main47", "main49", "start12"}

\* C3: in the readback test against a register that reads back the last value
\* written, 0xA5 is written before the read, the read returns 0xA5, and the
\* UART stream of the run is exactly "GPIO readback = 000000A5\n", 25
\* characters.
C3_Readback ==
    prog = "gpio_test" /\ ideal =>
        /\ Len(trace) >= 1 => IsAccess(trace[1], "W", IO_BASE + 32, <<0, 165>>)
        /\ Len(trace) >= 2 => IsAccess(trace[2], "R", IO_BASE + 32, <<0, 165>>)
        /\ \A k \in 1..Len(trace) : trace[k].op = "R" => k = 2
        /\ pc \notin {"start11", "main38", "main41"} => val = <<0, 165>>
        /\ IsPrefix(uart, ReadbackLine)
        /\ ReadbackPrinted => uart = ReadbackLine /\ Len(uart) = 25

\* the readback test has printed its line against the ideal register
C3_Witness ==
    /\ prog = "gpio_test" /\ ideal /\ pc = "main47"
    /\ uart = ReadbackLine /\ gpio_data = <<0, 165>>

\* the bus trace so far is an initial part of the accesses <<op, addr, word>>
\* listed in expected
Matches(expected) ==
    /\ Len(trace) <= Len(expected)
    /\ \A k \in 1..Len(trace) :
           IsAccess(trace[k], expected[k][1], expected[k][2], expected[k][3])

\* one UART write per character
UartWrites(chars) == [k \in 1..Len(chars) |-> <<"W", IO_BASE + 4, <<0, chars[k]>>>>]

\* "GPIO READ = "
ReadLabelText == <<71, 80, 73, 79, 32, 82, 69, 65, 68, 32, 61, 32>>

\* "GPIO readback = "
ReadbackLabelText == <<71, 80, 73, 79, 32, 114, 101, 97, 100, 98, 97, 99, 107, 32, 61, 32>>

\* the accesses of the direction/write/read test, r being the word read
CtrlOrder(r) ==
    << <<"W", GPIO_BASE + 4, <<0, 31>>>>, <<"W", GPIO_BASE, <<0, 10>>>>,
       <<"R", GPIO_BASE + 8, r>> >>
    \o UartWrites(ReadLabelText \o HexText(r) \o <<10>>)

\* the accesses of the readback test, r being the word read
ReadbackOrder(r) ==
    << <<"W", IO_BASE + 32, <<0, 165>>>>, <<"R", IO_BASE + 32, r>> >>
    \o UartWrites(ReadbackLabelText \o HexText(r) \o <<10>>)

\* C6: the direction/write/read test writes 0x1F to GPIO_DIR, then 0xA to
\* GPIO_DATA, then counts to 1000 with no register access, then reads
\* GPIO_READ once, then sends "GPIO READ = ", the 8 hex digits of exactly the
\* word read and a newline to the UART, and only then traps.
C6_CtrlOrder ==
    prog = "gpio_ctrl_test" =>
        /\ Matches(CtrlOrder(IF Len(trace) >= 3 THEN trace[3].val ELSE val))
        /\ Len(trace) >= 3 => val = trace[3].val
        /\ pc = "ctrl19" => Len(trace) = 2 /\ delay_i \in 0..1000
        /\ pc = "ctrl22" => Len(trace) = 2 /\ delay_i = 1000
        /\ pc = "ctrl25" => Len(trace) = 3 /\ delay_i = 1000
        /\ IsPrefix(uart, ReadLabelText \o HexText(val) \o <<10>>)
        /\ trapped = 0 <=> pc \notin {"ctrl32", "exit"}
        /\ trapped # 0 =>
            /\ trapped = 1
            /\ Len(trace) = 24
            /\ uart = ReadLabelText \o HexText(val) \o <<10>>

\* the direction/write/read test has trapped after reading 0xDEADBEEF
C6_Witness ==
    /\ prog = "gpio_ctrl_test" /\ pc = "ctrl32" /\ trapped = 1
    /\ val = <<57005, 48879>> /\ gpio_dir = <<0, 31>> /\ gpio_data = <<0, 10>>
    /\ uart = ReadLabelText \o <<68, 69, 65, 68, 66, 69, 69, 70, 10>>

\* the number of bus accesses program order puts before the current position
\* of the two GPIO tests
AccessesBefore ==
    CASE pc \in {"start11", "main38", "ctrl13"} -> 0
      [] pc \in {"main41", "ctrl16"} -> 1
      [] pc \in {"main43", "ctrl19", "ctrl22"} -> 2
      [] pc = "ctrl25" -> 3
      [] pc = "main44" -> 18
      [] pc = "ctrl26" -> 15
      [] pc = "main45" -> 26
      [] pc = "ctrl27" -> 23
      [] pc \in {"main47", "main49", "start12"} -> 27
      [] pc \in {"ctrl30", "ctrl32", "exit"} -> 24
      [] pc = "print_string" -> (CASE ret \in {"main44"} -> 2
                                   [] ret = "main47" -> 26
                                   [] ret = "ctrl26" -> 3
                                   [] ret = "ctrl30" -> 23) + s
      [] pc = "print_hex" -> (IF ret = "main45" THEN 18 ELSE 15) + (7 - hex_i)

\* the accesses of the timer test before its polling loop
TimerSetup ==
    << <<"W", TIMER_BASE, <<0, 0>>>>, <<"W", TIMER_BASE + 4, <<183, 6912>>>>,
       <<"W", TIMER_BASE, <<0, 3>>>> >>

\* entry k of the trace is a read of TIMER_STAT
IsStatRead(k) == trace[k].op = "R" /\ trace[k].addr = TIMER_BASE + 12

\* entry k of the trace is the write of 0x1 to TIMER_STAT
IsStatAck(k) == IsAccess(trace[k], "W", TIMER_BASE + 12, <<0, 1>>)

\* the recorded accesses of the timer test are those of its program order
TimerOrder ==
    /\ \A k \in 1..Len(trace) :
        k <= 3 => IsAccess(trace[k], TimerSetup[k][1], TimerSetup[k][2], TimerSetup[k][3])
    /\ \A k \in 4..Len(trace) :
        /\ IsStatRead(k) \/ IsStatAck(k)
        /\ IsStatAck(k) => k > 4 /\ IsStatRead(k - 1) /\ Bit0(trace[k - 1].val) = 1
        /\ k > 4 /\ IsStatRead(k - 1) /\ Bit0(trace[k - 1].val) = 1 => IsStatAck(k)
    /\ pc = "tmr11" => Len(trace) = 0
    /\ pc = "tmr14" => Len(trace) = 1
    /\ pc = "tmr17" => Len(trace) = 2
    /\ pc \in {"tmr20", "tmr21"} => Len(trace) >= 3
    /\ pc = "tmr21" <=> last.op = "R" /\ last.addr = TIMER_BASE + 12 /\ Bit0(last.val) = 1

\* C8: the bus trace of each of the three programs is exactly its register
\* accesses in program order, none omitted, duplicated, merged or swapped; in
\* the readback test the GPIO write precedes the GPIO read, which precedes
\* every UART write.
C8_ProgramOrder ==
    /\ prog = "gpio_test" =>
        /\ Matches(ReadbackOrder(IF Len(trace) >= 2 THEN trace[2].val ELSE val))
        /\ Len(trace) = AccessesBefore
    /\ prog = "gpio_ctrl_test" =>
        /\ Matches(CtrlOrder(IF Len(trace) >= 3 THEN trace[3].val ELSE val))
        /\ Len(trace) = AccessesBefore
    /\ prog = "timer_test2" => TimerOrder

\* the readback test has made all of its 27 accesses, reading 0x12345678
C8_Witness ==
    /\ prog = "gpio_test" /\ ~ideal /\ Len(trace) = 27
    /\ IsAccess(trace[2], "R", GPIO_ADDR, <<4660, 22136>>)
    /\ IsAccess(trace[27], "W", UART_ADDR, <<0, 10>>)

\* the timer test is in its polling loop: the state RUNNING
Running == prog = "timer_test2" /\ pc \in {"tmr20", "tmr21"}

\* the step is a bus access
Accessed == last' # last

\* what holds of the timer test in every state
C5_Always ==
    prog = "timer_test2" =>
        /\ pc \in {"tmr11", "tmr14", "tmr17", "tmr20", "tmr21"}
        /\ trapped = 0
        /\ \A k \in 1..Len(trace) :
            k <= 3 => IsAccess(trace[k], TimerSetup[k][1], TimerSetup[k][2], TimerSetup[k][3])
        /\ pc = "tmr11" => Len(trace) = 0
        /\ pc = "tmr14" => Len(trace) = 1
        /\ pc = "tmr17" => Len(trace) = 2
        /\ ctrl[2] % 2 = 1 => load = <<183, 6912>>
        /\ ~Running => ctrl = <<0, 0>>
        /\ Running => ctrl = <<0, 3>> /\ load = <<183, 6912>> /\ ENABLED CPU

\* what holds of every step of the timer test once RUNNING
C5_Step ==
    Running =>
        /\ Running'
        /\ ctrl' = ctrl /\ load' = load /\ trapped' = 0
        /\ Accessed => last'.addr \notin {TIMER_BASE, TIMER_BASE + 4}

\* C5: the timer test first writes 0 to TIMER_CTRL (STOPPED), then 12000000 to
\* TIMER_LOAD, then 0x3 to TIMER_CTRL (RUNNING); the timer is never enabled
\* before the load value is written; once RUNNING the program never writes
\* TIMER_CTRL or TIMER_LOAD again, never returns and never traps.
C5_StateMachine == [](C5_Always) /\ [][C5_Step]_vars

\* the timer test is RUNNING and about to acknowledge a timeout
C5_Witness ==
    /\ Running /\ pc = "tmr21" /\ Len(trace) >= 5
    /\ ctrl = <<0, 3>> /\ load = <<183, 6912>>

\* what holds of every step of the polling loop
C9_Step ==
    Running =>
        /\ Accessed => last'.addr = TIMER_BASE + 12
        /\ Accessed /\ last'.op = "R" => val' = last'.val
        /\ Accessed /\ last'.op = "W" =>
            /\ last'.val = <<0, 1>>
            /\ last.op = "R" /\ last.addr = TIMER_BASE + 12 /\ last.val[2] % 2 = 1
            /\ val[2] % 2 = 1
            /\ stat[2] % 2 = 1
        /\ uart' = <<>>
        /\ UNCHANGED <<ret, v, hex_i, str, s, delay_i, trapped>>

\* C9: in its polling loop the timer test only reads TIMER_STAT and, when the
\* word just read has bit 0 set, writes exactly 0x1 to it: never after a read
\* with bit 0 clear, never another value, no UART output, no count kept; so
\* the timeout flag is set at every write to TIMER_STAT.
C9_Polling == [](prog = "timer_test2" => uart = <<>>) /\ [][C9_Step]_vars

\* the polling loop has just acknowledged a timeout
C9_Witness ==
    /\ Running /\ pc = "tmr20"
    /\ IsAccess(last, "W", TIMER_STAT, <<0, 1>>) /\ Bit0(stat) = 0

\* the step writes 0x1 to TIMER_STAT
AckStep ==
    /\ prog = "timer_test2" /\ Accessed
    /\ IsAccess(last', "W", TIMER_BASE + 12, <<0, 1>>)

\* a write of 0x1 to TIMER_STAT clears bit 0 and no other bit
C4_Step ==
    AckStep => /\ stat'[2] % 2 = 0
               /\ stat'[2] \div 2 = stat[2] \div 2
               /\ stat'[1] = stat[1]

\* once in its loop the timer test has written 12000000 to TIMER_LOAD and
\* then 0x3 to TIMER_CTRL
C4_Started ==
    Running =>
        /\ IsAccess(trace[2], "W", TIMER_BASE + 4, <<183, 6912>>)
        /\ IsAccess(trace[3], "W", TIMER_BASE, <<0, 3>>)
        /\ load = <<183, 6912>> /\ ctrl = <<0, 3>>

\* C4: after the timer test has written 12000000 to TIMER_LOAD and 0x3 to
\* TIMER_CTRL, status bit 0 is eventually set, simulation time advancing
\* fairly; and each write of 0x1 to TIMER_STAT clears bit 0 only, every other
\* bit of the status register staying as it was.
C4_Timer ==
    /\ [](C4_Started)
    /\ Running ~> (Running /\ stat[2] % 2 = 1)
    /\ [][C4_Step]_vars

\* a timeout has been acknowledged with other status bits set: they are kept
C4_Witness ==
    /\ Running /\ IsAccess(last, "W", TIMER_STAT, <<0, 1>>)
    /\ stat = <<32768, 4>> /\ count < Num(load)

\* the program is one of the two GPIO tests
GpioTest == prog \in {"gpio_test", "gpio_ctrl_test"}

\* what holds of the GPIO tests in every state
C7_Always ==
    GpioTest =>
        /\ trapped \in {0, 1}
        /\ trapped = 1 <=> pc \in {"main49", "start12", "ctrl32", "exit"}
        /\ trapped = 1 =>
            /\ Len(uart) = (IF prog = "gpio_test" THEN 25 ELSE 21)
            /\ uart[Len(uart)] = 10
            /\ \A k \in 1..(Len(uart) - 1) : uart[k] # 10
            /\ Len(trace) = Len(uart) + (IF prog = "gpio_test" THEN 2 ELSE 3)

\* what holds of every step of the GPIO tests after the trap
C7_Step ==
    GpioTest /\ trapped >= 1 =>
        /\ trapped' = trapped
        /\ ~Accessed
        /\ UNCHANGED <<uart, trace, gpio_data, gpio_dir>>
        /\ pc = "start12" => pc' = "start12"

\* C7: each GPIO test executes the trap on every run, exactly once, only after
\* its whole output line with the newline has gone to the UART, and accesses
\* no GPIO or UART register after it; what follows the trap in the readback
\* test is main's return and _start idling for ever.
C7_Trap ==
    /\ [](C7_Always)
    /\ [][C7_Step]_vars
    /\ GpioTest ~> (trapped = 1)
    /\ (prog = "gpio_test") ~> [](pc = "start12")

\* the readback test has trapped and idles in _start, having read 0xFFFFFFFF
C7_Witness ==
    /\ prog = "gpio_test" /\ pc = "start12" /\ trapped = 1
    /\ val = <<65535, 65535>> /\ uart[Len(uart)] = 10

\* the step is a timeout of the timer (under TimedFairSpec, where the CPU
\* has made accesses since the timeout before)
TimeoutStep ==
    /\ prog = "timer_test2" /\ steps' = 0 /\ steps # 0
    /\ ctrl[2] % 2 = 1 /\ count <= TickCycles

\* a timeout finds the flag clear and sets it; an acknowledgement finds it set
\* and clears it
C10_Step ==
    /\ TimeoutStep => stat[2] % 2 = 0 /\ stat'[2] % 2 = 1
    /\ AckStep => stat[2] % 2 = 1 /\ stat'[2] % 2 = 0

\* C10: with a timer period longer than a pass through the polling loop, each
\* timeout is acknowledged on its own: status bit 0, once set, is eventually
\* cleared by the program, and cleared before the next timeout, so that no
\* timeout is missed or merged with another; and this goes on for ever, the
\* flag being set and cleared infinitely often.
C10_Acknowledge ==
    /\ (Running /\ stat[2] % 2 = 1) ~> (stat[2] % 2 = 0)
    /\ [][C10_Step]_vars
    /\ []<>(prog = "timer_test2" => stat[2] % 2 = 1)
    /\ []<>(prog = "timer_test2" => stat[2] % 2 = 0)

\* a second timeout is seen after the first one was acknowledged
C10_Witness ==
    /\ Running /\ pc = "tmr21"
    /\ \E j \in 4..Len(trace) : \E k \in (j + 1)..Len(trace) :
        /\ IsStatAck(j)
        /\ IsStatRead(k) /\ Bit0(trace[k].val) = 1

====
